---- MODULE Spec2Model ----
(***************************************************************************)
(* Conversation controller of frontend/src/app/page.tsx (component Home):  *)
(* the transcript `messages`, the input field `input`, the flag `loading`, *)
(* and the asynchronous handler handleSend with its suspension points      *)
(* (await fetch, await res.text(), await res.json()).                      *)
(*                                                                         *)
(* Strings are sequences of symbols.  A symbol is a character of the input *)
(* (" " is white space) or an opaque chunk of text ("Bonjour").            *)
(* React re-renders after every handler, so the values the handler closes  *)
(* over (messages, input) are the state at the time the handler starts.    *)
(***************************************************************************)
EXTENDS Integers, Sequences, FiniteSets, TLC

VARIABLES messages, input, loading, calls, now, unhandled, lastOp

vars == <<messages, input, loading, calls, now, unhandled, lastOp>>

\* ---- bounds ----
MaxMsgs == 4
MaxClock == 2

\* ---- strings ----
Whitespace == {" "}

\* values the user can put into the input field (onChange)
InputTexts == {<< >>, <<" ">>, <<"a">>, <<" ", "a", " ">>}

\* reply strings a backend can put into a field of its JSON object
ReplyTexts == {<< >>, <<"Bonjour">>, <<"Hola">>}

\* response bodies of a non-2xx answer
BodyTexts == {<< >>, <<"server error">>}

NoReply == <<"No reply">>

\* the text of the error message (its leading emoji left out)
ErrorText == <<"Error: Failed to connect to server. Please check your internet or backend.">>

RECURSIVE TrimStart(_)
TrimStart(s) ==
  IF s # << >> /\ Head(s) \in Whitespace THEN TrimStart(Tail(s)) ELSE s

RECURSIVE TrimEnd(_)
TrimEnd(s) ==
  IF s # << >> /\ s[Len(s)] \in Whitespace
  THEN TrimEnd(SubSeq(s, 1, Len(s) - 1)) ELSE s

Trim_Identity(s) == s

\* String.prototype.trim
Trim(s) == TrimEnd(TrimStart(s))

\* t occurs in s as a contiguous run
Contains(s, t) ==
  \E k \in 0..(Len(s) - Len(t)) : SubSeq(s, k + 1, k + Len(t)) = t

\* ---- toHistory ----
toHistory_DropLast(msgs) ==
  [i \in 1..(Len(msgs) - 1) |->
     [role |-> IF msgs[i].fromUser THEN "user" ELSE "assistant",
      content |-> msgs[i].text]]

\* msgs.map(({ fromUser, text }) => ({ role, content }))
toHistory(msgs) ==
  [i \in 1..Len(msgs) |->
     [role |-> IF msgs[i].fromUser THEN "user" ELSE "assistant",
      content |-> msgs[i].text]]

\* ---- messages built by handleSend ----
userMsg_Trimmed(t, txt) == [id |-> t, text |-> Trim(txt), fromUser |-> TRUE]

userMsg(t, txt) == [id |-> t, text |-> txt, fromUser |-> TRUE]

botMsg(t, reply) == [id |-> t + 1, text |-> reply, fromUser |-> FALSE]

errorMsg(t) == [id |-> t + 2, text |-> ErrorText, fromUser |-> FALSE]

\* ---- responses ----
\* a field of a JSON object: absent, or present with a string value
Absent == [present |-> FALSE, value |-> << >>]

FieldValues == {Absent} \cup {[present |-> TRUE, value |-> v] : v \in ReplyTexts}

\* bodies: a JSON object, JSON null, a JSON number, or text that is not JSON
JsonBodies ==
  {[kind |-> "object", assistant_reply |-> a, response |-> r, text |-> << >>] :
      a \in FieldValues, r \in FieldValues}
    \cup {[kind |-> k, assistant_reply |-> Absent, response |-> Absent,
           text |-> << >>] : k \in {"null", "number"}}

TextBodies ==
  {[kind |-> "text", assistant_reply |-> Absent, response |-> Absent,
    text |-> b] : b \in BodyTexts}

\* what fetch resolves with: res.ok and the body behind res.json() / res.text()
Responses ==
  {[ok |-> TRUE, body |-> d] : d \in JsonBodies \cup TextBodies}
    \cup {[ok |-> FALSE, body |-> d] : d \in TextBodies}

NoResponse == [ok |-> FALSE, body |-> [kind |-> "none", assistant_reply |-> Absent,
                                       response |-> Absent, text |-> << >>]]

\* JSON.parse accepts the body
IsJson(body) == body.kind \in {"object", "null", "number"}

\* property access data.f throws a TypeError on null
AccessThrows(data) == data.kind = "null"

\* data.f is truthy: an object's field, present and not the empty string
Truthy(data, f) ==
  /\ data.kind = "object"
  /\ IF f = "assistant_reply"
     THEN data.assistant_reply.present /\ data.assistant_reply.value # << >>
     ELSE data.response.present /\ data.response.value # << >>

assistantReply_ResponseFirst(data) ==
  IF Truthy(data, "response") THEN data.response.value
  ELSE IF Truthy(data, "assistant_reply") THEN data.assistant_reply.value
  ELSE <<"No reply">>

\* data.assistant_reply || data.response || "No reply"
assistantReply(data) ==
  IF Truthy(data, "assistant_reply") THEN data.assistant_reply.value
  ELSE IF Truthy(data, "response") THEN data.response.value
  ELSE NoReply

\* ---- the submit button ----
SubmitDisabled_Never == FALSE

\* disabled={loading}
SubmitDisabled == loading

\* ---- sequences ----
\* [...msgs, m]
Push_Front(msgs, m) == <<m>> \o msgs

Push(msgs, m) == Append(msgs, m)

RemoveAt(s, i) == SubSeq(s, 1, i - 1) \o SubSeq(s, i + 1, Len(s))

Caught_Never(err) == FALSE

\* the catch clause takes every thrown value
Caught(err) == TRUE

Init ==
  /\ messages = << >>
  /\ input = << >>
  /\ loading = FALSE
  /\ calls = << >>
  /\ now = 0
  /\ unhandled = FALSE
  /\ lastOp = "init"

\* onChange of the input field
onChange(v) ==
  /\ input' = v
  /\ lastOp' = "onChange"
  /\ UNCHANGED <<messages, loading, calls, now, unhandled>>

\* a reading of Date.now(): not before the previous reading
DateNow(t) == t \in now..MaxClock /\ now' = t

requestBody_Trimmed(msgs, txt) ==
  [history |-> toHistory(msgs), user_input |-> Trim(txt)]

\* the body of the POST request: { history: toHistory(updatedMessages),
\* user_input: input }
requestBody(msgs, txt) == [history |-> toHistory(msgs), user_input |-> txt]

\* handleSend up to its first await
handleSend ==
  IF Trim(input) = << >>
  THEN /\ lastOp' = "ignored"
       /\ UNCHANGED <<messages, input, loading, calls, now, unhandled>>
  ELSE /\ Len(messages) + 2 <= MaxMsgs
       /\ \E t \in 0..MaxClock :
            /\ DateNow(t)
            /\ LET updatedMessages == Push(messages, userMsg(t, input)) IN
                 /\ messages' = updatedMessages
                 /\ calls' = Append(calls,
                      [pc |-> "fetch", res |-> NoResponse,
                       history |-> requestBody(updatedMessages, input).history,
                       user_input |-> requestBody(updatedMessages, input).user_input])
       /\ input' = << >>
       /\ loading' = TRUE
       /\ lastOp' = "send"
       /\ UNCHANGED unhandled

\* the user clicks the submit button or presses Enter in the input field; a
\* disabled submit button takes no click and, being the form's default button,
\* also stops the implicit submission by Enter, so onSubmit is not called
Submit ==
  IF SubmitDisabled
  THEN /\ lastOp' = "blocked"
       /\ UNCHANGED <<messages, input, loading, calls, now, unhandled>>
  ELSE handleSend

\* the catch clause without the finally clause
Fail_NoFinally(i, err, op) ==
  /\ \E t \in 0..MaxClock :
       DateNow(t) /\ messages' = Push(messages, errorMsg(t))
  /\ calls' = RemoveAt(calls, i)
  /\ lastOp' = op
  /\ UNCHANGED <<input, loading, unhandled>>

\* the catch clause appending nothing
Fail_NoMessage(i, err, op) ==
  /\ loading' = FALSE
  /\ calls' = RemoveAt(calls, i)
  /\ lastOp' = op
  /\ UNCHANGED <<messages, input, now, unhandled>>

\* catch and finally of handleSend for call i
Fail(i, err, op) ==
  /\ IF Caught(err)
     THEN /\ \E t \in 0..MaxClock :
               DateNow(t) /\ messages' = Push(messages, errorMsg(t))
          /\ UNCHANGED unhandled
     ELSE /\ unhandled' = TRUE
          /\ UNCHANGED <<messages, now>>
  /\ loading' = FALSE
  /\ calls' = RemoveAt(calls, i)
  /\ lastOp' = op
  /\ UNCHANGED input

\* fetch rejects: the transport failed
FetchReject(i) ==
  /\ calls[i].pc = "fetch"
  /\ Fail(i, "TypeError: Failed to fetch", "transportFailure")

\* fetch resolves with a response; handleSend goes on to await res.text()
\* (!res.ok) or res.json()
FetchRespond(i, res) ==
  /\ calls[i].pc = "fetch"
  /\ calls' = [calls EXCEPT ![i].pc = IF res.ok THEN "json" ELSE "text",
                            ![i].res = res]
  /\ lastOp' = "response"
  /\ UNCHANGED <<messages, input, loading, now, unhandled>>

\* the status failure surfacing the response body in the transcript
TextResolve_Surface(i) ==
  /\ calls[i].pc = "text"
  /\ \E t \in 0..MaxClock :
       /\ DateNow(t)
       /\ messages' = Push(messages, [id |-> t + 2,
                                      text |-> calls[i].res.body.text,
                                      fromUser |-> FALSE])
  /\ loading' = FALSE
  /\ calls' = RemoveAt(calls, i)
  /\ lastOp' = "statusFailure"
  /\ UNCHANGED <<input, unhandled>>

\* res.text() of a non-2xx response resolves: throw new Error(body)
TextResolve(i) ==
  /\ calls[i].pc = "text"
  /\ Fail(i, <<"Error", calls[i].res.body.text>>, "statusFailure")

\* the failure path also resetting the input field
TextReject_ClearsInput(i) ==
  /\ calls[i].pc = "text"
  /\ \E t \in 0..MaxClock :
       DateNow(t) /\ messages' = Push(messages, errorMsg(t))
  /\ input' = << >>
  /\ loading' = FALSE
  /\ calls' = RemoveAt(calls, i)
  /\ lastOp' = "bodyFailure"
  /\ UNCHANGED unhandled

\* res.text() rejects: the body cannot be read
TextReject(i) ==
  /\ calls[i].pc = "text"
  /\ Fail(i, "BodyError", "bodyFailure")

\* res.json() rejects: the body cannot be read or is not JSON
JsonReject(i) ==
  /\ calls[i].pc = "json"
  /\ Fail(i, "SyntaxError", "parseFailure")

\* a reply followed by the error message, as if the try block threw after
\* setMessages
JsonResolve_AlsoError(i) ==
  /\ calls[i].pc = "json"
  /\ IsJson(calls[i].res.body)
  /\ \E t \in 0..MaxClock :
       /\ DateNow(t)
       /\ messages' = Push(Push(messages, botMsg(t, NoReply)), errorMsg(t))
  /\ loading' = FALSE
  /\ calls' = RemoveAt(calls, i)
  /\ lastOp' = "reply"
  /\ UNCHANGED <<input, unhandled>>

\* res.json() resolves with data, the parsed body
JsonResolve(i) ==
  /\ calls[i].pc = "json"
  /\ IsJson(calls[i].res.body)
  /\ LET data == calls[i].res.body IN
       IF AccessThrows(data)
       THEN Fail(i, "TypeError", "shapeFailure")
       ELSE /\ \E t \in 0..MaxClock :
                 /\ DateNow(t)
                 /\ messages' = Push(messages, botMsg(t, assistantReply(data)))
            /\ loading' = FALSE
            /\ calls' = RemoveAt(calls, i)
            /\ lastOp' = "reply"
            /\ UNCHANGED <<input, unhandled>>

Resolve ==
  \E i \in 1..Len(calls) :
    \/ FetchReject(i)
    \/ \E res \in Responses : FetchRespond(i, res)
    \/ TextResolve(i)
    \/ TextReject(i)
    \/ JsonReject(i)
    \/ JsonResolve(i)

Next ==
  \/ \E v \in InputTexts : onChange(v)
  \/ Submit
  \/ Resolve

Spec == Init /\ [][Next]_vars

\* every request that was issued resolves
FairSpec == Spec /\ WF_vars(Resolve)

TypeOK ==
  /\ input \in InputTexts
  /\ loading \in BOOLEAN
  /\ now \in 0..MaxClock
  /\ unhandled \in BOOLEAN
  /\ \A i \in 1..Len(messages) : messages[i].fromUser \in BOOLEAN

\* ---- vocabulary of the properties ----
\* s is empty or consists of white space only
IsBlank(s) == \A k \in 1..Len(s) : s[k] \in Whitespace

\* m extends the transcript by exactly one message at its end
ExtendsByOne(old, new) ==
  /\ Len(new) = Len(old) + 1
  /\ \A k \in 1..Len(old) : new[k] = old[k]

SubmitOps == {"blocked", "ignored", "send"}

FailureOps == {"transportFailure", "statusFailure", "bodyFailure",
               "parseFailure", "shapeFailure"}

ResolutionOps == FailureOps \cup {"reply"}

\* C1: at most one network exchange is outstanding; while loading no submit
\* is initiated, and a submit attempted while loading appends no message and
\* issues no request.
C1_SingleExchange ==
  [][/\ Len(calls') <= 1
     /\ loading =>
          /\ lastOp' # "send"
          /\ Len(calls') <= Len(calls)
          /\ \A k \in (Len(messages) + 1)..Len(messages') :
               ~messages'[k].fromUser
          /\ lastOp' = "blocked" =>
               UNCHANGED <<messages, input, loading, calls>>]_vars

C1_Witness ==
  /\ lastOp = "blocked"
  /\ loading
  /\ Len(calls) = 1
  /\ ~IsBlank(input)

UserAt(i) == i <= Len(messages) /\ messages[i].fromUser

AnsweredAt(i) == i + 1 <= Len(messages) /\ ~messages[i + 1].fromUser

\* C2: every user message is eventually followed by exactly one assistant
\* message (reply or error message): the next entry becomes an assistant
\* message, and the entry after that is never a second assistant message.
C2_ExactlyOneAnswer ==
  /\ \A i \in 1..MaxMsgs : UserAt(i) ~> AnsweredAt(i)
  /\ [](\A i \in 1..Len(messages) :
          (UserAt(i) /\ i + 2 <= Len(messages)) => messages[i + 2].fromUser)

C2_Witness ==
  /\ Len(messages) = 4
  /\ UserAt(1) /\ AnsweredAt(1) /\ messages[2].text = ErrorText
  /\ UserAt(3) /\ AnsweredAt(3) /\ messages[4].text = <<"Bonjour">>
  /\ ~loading

\* C3: loading is true exactly while an exchange started by handleSend has
\* not resolved, and it is false right after a resolution by any path.
C3_PendingIffOutstanding ==
  /\ loading <=> (Len(calls) > 0)
  /\ lastOp \in ResolutionOps => ~loading /\ calls = << >>

C3_Witness ==
  /\ lastOp = "parseFailure"
  /\ ~loading
  /\ Len(messages) = 2

\* C4: a submit with a non-blank input while not loading appends exactly one
\* user message carrying the raw input, clears the input and sets loading,
\* all while the exchange it started is still unresolved.
C4_SubmitEffects ==
  [][(lastOp' \in SubmitOps /\ ~loading /\ ~IsBlank(input)) =>
       /\ ExtendsByOne(messages, messages')
       /\ messages'[Len(messages')].fromUser
       /\ messages'[Len(messages')].text = input
       /\ input' = << >>
       /\ loading'
       /\ Len(calls') = Len(calls) + 1
       /\ calls'[Len(calls')].pc = "fetch"]_vars

C4_Witness ==
  /\ lastOp = "send"
  /\ loading
  /\ input = << >>
  /\ messages[Len(messages)].text = <<" ", "a", " ">>
  /\ calls[1].pc = "fetch"

\* C5: a submit with an empty or white-space-only input changes neither the
\* transcript, nor loading, nor the input, and issues no request.
C5_BlankSubmitNoop ==
  [][(lastOp' \in SubmitOps /\ IsBlank(input)) =>
       UNCHANGED <<messages, loading, input, calls>>]_vars

C5_Witness ==
  /\ lastOp = "ignored"
  /\ input = <<" ">>
  /\ ~loading

\* h is the role-tagged serialisation of the transcript msgs
SerialisationOf(h, msgs) ==
  /\ Len(h) = Len(msgs)
  /\ \A k \in 1..Len(msgs) :
       /\ h[k].content = msgs[k].text
       /\ h[k].role = (IF msgs[k].fromUser THEN "user" ELSE "assistant")

\* C6: the serialised history of a transcript of length n has length n and
\* keeps order, text and role (error messages are "assistant"); the history
\* of the request in flight covers the whole transcript, the user message
\* just appended last.
C6_HistoryCoversTranscript ==
  /\ SerialisationOf(toHistory(messages), messages)
  /\ \A c \in 1..Len(calls) :
       /\ SerialisationOf(calls[c].history, messages)
       /\ calls[c].history[Len(calls[c].history)].role = "user"
       /\ messages[Len(messages)].fromUser

C6_Witness ==
  /\ Len(calls) = 1
  /\ Len(messages) = 3
  /\ messages[2].text = ErrorText
  /\ calls[1].history[2].role = "assistant"
  /\ calls[1].history[3].content = <<" ", "a", " ">>

\* the step is a reply to a 2xx response whose body is a JSON object
ReplyStep ==
  /\ lastOp' = "reply"
  /\ Len(calls) = 1
  /\ calls[1].res.body.kind = "object"
  /\ ExtendsByOne(messages, messages')
  /\ ~messages'[Len(messages')].fromUser

\* C7 as claimed: the reply text is assistant_reply whenever the field is
\* present (the empty string included), response only when assistant_reply is
\* absent, "No reply" only when both are absent.
C7_Original ==
  [][ReplyStep =>
       LET d == calls[1].res.body
           txt == messages'[Len(messages')].text
       IN  /\ d.assistant_reply.present => txt = d.assistant_reply.value
           /\ (~d.assistant_reply.present /\ d.response.present) =>
                txt = d.response.value
           /\ (~d.assistant_reply.present /\ ~d.response.present) =>
                txt = <<"No reply">>]_vars

\* C7 as amended: the reply text is assistant_reply when that field is present
\* and not the empty string; otherwise response when that field is present and
\* not the empty string; otherwise "No reply".  The message is the last entry.
C7_ReplyExtraction ==
  [][(lastOp' = "reply" /\ Len(calls) = 1
        /\ calls[1].res.body.kind = "object") =>
       LET d == calls[1].res.body
           txt == messages'[Len(messages')].text
           a == d.assistant_reply.present /\ d.assistant_reply.value # << >>
           r == d.response.present /\ d.response.value # << >>
       IN  /\ ExtendsByOne(messages, messages')
           /\ ~messages'[Len(messages')].fromUser
           /\ a => txt = d.assistant_reply.value
           /\ (~a /\ r) => txt = d.response.value
           /\ (~a /\ ~r) => txt = <<"No reply">>]_vars

\* an empty assistant_reply next to a response field has been answered
C7_Witness ==
  /\ lastOp = "reply"
  /\ Len(messages) = 4
  /\ messages[2].text = <<"No reply">>
  /\ messages[4].text = <<"Hola">>
  /\ ~loading

C9_FailuresAbsorbed ==
  [][(lastOp' \in FailureOps /\ Len(calls) > Len(calls')) =>
       /\ ExtendsByOne(messages, messages')
       /\ messages'[Len(messages)].fromUser
       /\ ~messages'[Len(messages')].fromUser
       /\ messages'[Len(messages')].text = ErrorText
       /\ ~loading'
       /\ ~unhandled /\ ~unhandled']_vars

C9_Witness ==
  /\ lastOp = "bodyFailure"
  /\ Len(messages) = 4
  /\ messages[2].text = ErrorText
  /\ messages[3].fromUser
  /\ messages[4].text = ErrorText
  /\ ~unhandled

\* C10: every step leaves the transcript unchanged or extends it by exactly
\* one message at its end.
C10_AppendOnly ==
  [][messages' = messages \/ ExtendsByOne(messages, messages')]_vars

C10_Witness ==
  /\ Len(messages) = 4
  /\ lastOp = "ignored"
  /\ messages[2].text = <<"Bonjour">>
  /\ messages[4].text = ErrorText

\* C11 as claimed: no two messages of the transcript have the same id.
C11_UniqueIds ==
  \A i \in 1..Len(messages) : \A j \in 1..Len(messages) :
    i # j => messages[i].id # messages[j].id

\* C12 as claimed: a 2xx response whose body is parseable JSON without a
\* reply field (an object with neither field, JSON null, another non-object
\* value) is answered with the placeholder "No reply", not the error message.
C12_PlaceholderNotError ==
  [][(/\ lastOp' \in {"reply", "shapeFailure"}
      /\ Len(calls) = 1
      /\ calls[1].res.ok
      /\ \/ calls[1].res.body.kind \in {"null", "number"}
         \/ /\ calls[1].res.body.kind = "object"
            /\ ~calls[1].res.body.assistant_reply.present
            /\ ~calls[1].res.body.response.present) =>
       /\ ExtendsByOne(messages, messages')
       /\ ~messages'[Len(messages')].fromUser
       /\ messages'[Len(messages')].text = <<"No reply">>]_vars

\* C13: the transcript alternates user, assistant, user, ... from a user
\* message on; it has even length when not loading, and odd length with the
\* user message of the exchange in flight last when loading.
C13_Alternation ==
  /\ \A k \in 1..Len(messages) : messages[k].fromUser <=> (k % 2 = 1)
  /\ ~loading => Len(messages) % 2 = 0
  /\ loading => /\ Len(messages) % 2 = 1
                /\ messages[Len(messages)].fromUser
                /\ Len(calls) = 1
                /\ messages[Len(messages)].text = calls[1].user_input

C13_Witness ==
  /\ loading
  /\ Len(messages) = 3
  /\ messages[2].text = ErrorText
  /\ calls[1].pc = "json"

\* C14: in the request issued by a submit, user_input equals the content of
\* the last element of history, that element has role "user", and both equal
\* the raw input as it was before the input field was cleared.
C14_UserInputIsLastHistory ==
  [][lastOp' = "send" =>
       LET req == calls'[Len(calls')]
           last == req.history[Len(req.history)]
       IN  /\ Len(calls') = Len(calls) + 1
           /\ Len(req.history) > 0
           /\ req.user_input = last.content
           /\ last.role = "user"
           /\ req.user_input = input
           /\ input' = << >>]_vars

C14_Witness ==
  /\ lastOp = "send"
  /\ Len(calls) = 1
  /\ Len(messages) = 3
  /\ calls[1].user_input = <<" ", "a", " ">>
  /\ calls[1].history[3].content = <<" ", "a", " ">>
  /\ input = << >>

\* C15: a resolution step (success or failure) leaves the input unchanged and
\* changes only the transcript and loading, so text typed while loading is
\* still there afterwards; typing changes only the input.
C15_Frames ==
  [][/\ lastOp' \in ResolutionOps \cup {"response"} => input' = input
     /\ lastOp' = "onChange" => UNCHANGED <<messages, loading, calls>>]_vars

C15_Witness ==
  /\ lastOp = "reply"
  /\ ~loading
  /\ input = <<" ", "a", " ">>
  /\ Len(messages) = 2
====
